---- MODULE Spec2Model ----
(***************************************************************************)
(* DepthMaskMaterial (src/src/materials/DepthMaskMaterial.js): the depth   *)
(* mode, the epsilon and the max depth strategy of the depth mask, and the *)
(* preprocessor defines the material emits for the fragment shader.        *)
(*                                                                         *)
(* JavaScript numbers are modelled as exact decimals                       *)
(*   [neg, mant, exp]  =  (-1)^neg * mant * 10^(-exp)                      *)
(* in normal form (mant not divisible by 10 unless exp = 0), and           *)
(* JavaScript strings that hold numerals as sequences of one-character     *)
(* strings, so that Number.prototype.toFixed and Number() are conversions  *)
(* with their own rounding and parsing.                                    *)
(***************************************************************************)
EXTENDS Integers, Sequences, FiniteSets, TLC

VARIABLES depthMode, defines, needsUpdate, call

vars == <<depthMode, defines, needsUpdate, call>>

----------------------------------------------------------------------------
(* Bounds of the model. *)

\* Depth samples are 0, 1e-5, ..., MaxSample * 1e-5 and the far plane 1.0.
MaxSample == 3

\* Mode values outside the enumeration: NotEqualDepth + 1 .. NotEqualDepth + MaxUnknownMode.
MaxUnknownMode == 1

\* Additional small epsilon inputs 1e-6, ..., 10^-(5+MaxExtraEpsilon).
MaxExtraEpsilon == 1

----------------------------------------------------------------------------
(* Constants of three.js imported by the material. *)

NeverDepth == 0
AlwaysDepth == 1
LessDepth == 2
LessEqualDepth == 3
EqualDepth == 4
GreaterEqualDepth == 5
GreaterDepth == 6
NotEqualDepth == 7

DepthModes ==
  {NeverDepth, AlwaysDepth, LessDepth, LessEqualDepth, EqualDepth,
   GreaterEqualDepth, GreaterDepth, NotEqualDepth}

\* The number of fraction digits setEpsilon formats with.
EpsilonDigits == 16

\* The number of fraction digits setMaxDepthStrategy formats with.
StrategyDigits == 0

----------------------------------------------------------------------------
(* Decimal numbers. *)

RECURSIVE Pow10(_)
Pow10(k) == IF k <= 0 THEN 1 ELSE 10 * Pow10(k - 1)

RECURSIVE NumDigits(_)
NumDigits(n) == IF n < 10 THEN 1 ELSE 1 + NumDigits(n \div 10)

RECURSIVE Norm(_, _, _)
Norm(neg, mant, exp) ==
  IF mant = 0 THEN [neg |-> FALSE, mant |-> 0, exp |-> 0]
  ELSE IF exp > 0 /\ mant % 10 = 0 THEN Norm(neg, mant \div 10, exp - 1)
  ELSE [neg |-> neg, mant |-> mant, exp |-> exp]

Dec(mant, exp) == Norm(FALSE, mant, exp)

Neg(x) == Norm(~x.neg, x.mant, x.exp)

Zero == Dec(0, 0)

\* The order of magnitude of a positive decimal.
Mag(x) == NumDigits(x.mant) - x.exp

\* |a| < |b|
LtAbs(a, b) ==
  IF b.mant = 0 THEN FALSE
  ELSE IF a.mant = 0 THEN TRUE
  ELSE IF Mag(a) # Mag(b) THEN Mag(a) < Mag(b)
  ELSE LET na == NumDigits(a.mant)
           nb == NumDigits(b.mant)
           n  == IF na > nb THEN na ELSE nb
       IN  a.mant * Pow10(n - na) < b.mant * Pow10(n - nb)

\* a < b
Lt(a, b) ==
  IF a.neg /\ ~b.neg THEN TRUE
  ELSE IF ~a.neg /\ b.neg THEN FALSE
  ELSE IF a.neg THEN LtAbs(b, a)
  ELSE LtAbs(a, b)

Leq(a, b) == ~Lt(b, a)

\* abs(a - b)
AbsDiff(a, b) ==
  LET e  == IF a.exp > b.exp THEN a.exp ELSE b.exp
      ia == (IF a.neg THEN -1 ELSE 1) * a.mant * Pow10(e - a.exp)
      ib == (IF b.neg THEN -1 ELSE 1) * b.mant * Pow10(e - b.exp)
      d  == ia - ib
  IN  Norm(FALSE, IF d < 0 THEN -d ELSE d, e)

----------------------------------------------------------------------------
(* JavaScript values. *)

JSNumber(x) == [type |-> "number", val |-> x]
JSString(s) == [type |-> "string", val |-> s]
undefined == [type |-> "undefined", val |-> <<>>]

\* a === b
StrictEquals(a, b) == a.type = b.type /\ a.val = b.val

DigitChar == <<"0", "1", "2", "3", "4", "5", "6", "7", "8", "9">>

CharDigit(c) == CHOOSE d \in 0..9 : DigitChar[d + 1] = c

RECURSIVE IntChars(_)
IntChars(n) ==
  IF n < 10 THEN <<DigitChar[n + 1]>>
  ELSE Append(IntChars(n \div 10), DigitChar[(n % 10) + 1])

\* x rounded to f fraction digits; of two nearest decimals the larger
\* magnitude is taken.
RoundTo(x, f) ==
  IF x.exp <= f THEN x
  ELSE LET k == x.exp - f
       IN  IF k > NumDigits(x.mant) THEN [neg |-> x.neg, mant |-> 0, exp |-> f]
           ELSE LET q == x.mant \div Pow10(k)
                    r == x.mant % Pow10(k)
                    n == IF 2 * r >= Pow10(k) THEN q + 1 ELSE q
                IN  [neg |-> x.neg, mant |-> n, exp |-> f]

\* The digit of mant * 10^(-exp) at fraction position p.
FracDigit(mant, exp, p) ==
  IF exp < p \/ exp - p >= NumDigits(mant) THEN 0
  ELSE (mant \div Pow10(exp - p)) % 10

\* The integer part of mant * 10^(-exp).
IntPart(mant, exp) ==
  IF exp >= NumDigits(mant) THEN 0 ELSE mant \div Pow10(exp)

\* Number.prototype.toFixed(f)
toFixed(x, f) ==
  LET y    == RoundTo(x, f)
      sign == IF x.neg THEN <<"-">> ELSE <<>>
      int  == IntChars(IntPart(y.mant, y.exp))
      frac == [p \in 1..f |-> DigitChar[FracDigit(y.mant, y.exp, p) + 1]]
  IN  sign \o int \o (IF f > 0 THEN <<".">> \o frac ELSE <<>>)

RECURSIVE ParseInt(_)
ParseInt(s) ==
  IF s = <<>> THEN 0
  ELSE 10 * ParseInt(SubSeq(s, 1, Len(s) - 1)) + CharDigit(s[Len(s)])

RECURSIVE StripZeros(_)
StripZeros(s) ==
  IF s # <<>> /\ s[Len(s)] = "0" THEN StripZeros(SubSeq(s, 1, Len(s) - 1))
  ELSE s

RECURSIVE StripLeadingZeros(_)
StripLeadingZeros(s) ==
  IF s # <<>> /\ s[1] = "0" THEN StripLeadingZeros(Tail(s)) ELSE s

\* The numeral s (sign, integer digits, optional point and fraction digits)
\* as a decimal.
ParseNumeral(s) ==
  LET neg  == s # <<>> /\ s[1] = "-"
      body == IF neg THEN Tail(s) ELSE s
      dots == {i \in 1..Len(body) : body[i] = "."}
      dot  == IF dots = {} THEN Len(body) + 1 ELSE CHOOSE i \in dots : TRUE
      int  == SubSeq(body, 1, dot - 1)
      frac == StripZeros(SubSeq(body, dot + 1, Len(body)))
  IN  Norm(neg, ParseInt(StripLeadingZeros(int \o frac)), Len(frac))

\* Number(v)
Number(v) ==
  IF v.type = "number" THEN v.val ELSE ParseNumeral(v.val)

\* String(v), the text the renderer writes after "#define NAME ".
String(v) ==
  IF v.type = "number"
  THEN (IF v.val.neg THEN <<"-">> ELSE <<>>) \o IntChars(v.val.mant)
  ELSE v.val

----------------------------------------------------------------------------
(* The material. *)

DepthTestStrategy ==
  [DEFAULT |-> JSNumber(Dec(0, 0)),
   KEEP_MAX_DEPTH |-> JSNumber(Dec(1, 0)),
   DISCARD_MAX_DEPTH |-> JSNumber(Dec(2, 0))]

\* obj.key; a property the object does not have reads as undefined.
Get(obj, key) == IF key \in DOMAIN obj THEN obj[key] ELSE undefined

\* The state of a material: its depthMode field, its defines and the
\* needsUpdate flag.
Material(mode, defs, dirty) ==
  [depthMode |-> mode, defines |-> defs, needsUpdate |-> dirty]

this == Material(depthMode, defines, needsUpdate)

\* depthTest with the expression of LessDepth selected for LessEqualDepth too.
depthTest_strict(mode) ==
  CASE mode = NeverDepth -> "false"
    [] mode = AlwaysDepth -> "true"
    [] mode = EqualDepth -> "abs(d1 - d0) <= DEPTH_EPSILON"
    [] mode = NotEqualDepth -> "abs(d1 - d0) > DEPTH_EPSILON"
    [] mode = LessDepth -> "d0 > d1"
    [] mode = LessEqualDepth -> "d0 > d1"
    [] mode = GreaterEqualDepth -> "d0 <= d1"
    [] OTHER -> "d0 < d1"

\* The expression setDepthMode selects for a mode.
depthTest(mode) ==
  CASE mode = NeverDepth -> "false"
    [] mode = AlwaysDepth -> "true"
    [] mode = EqualDepth -> "abs(d1 - d0) <= DEPTH_EPSILON"
    [] mode = NotEqualDepth -> "abs(d1 - d0) > DEPTH_EPSILON"
    [] mode = LessDepth -> "d0 > d1"
    [] mode = LessEqualDepth -> "d0 >= d1"
    [] mode = GreaterEqualDepth -> "d0 <= d1"
    [] OTHER -> "d0 < d1"

\* setDepthMode that keeps an expression the defines already hold.
setDepthMode_stale(m, mode) ==
  Material(mode,
           IF "depthTest(d0, d1)" \in DOMAIN m.defines
           THEN m.defines
           ELSE ("depthTest(d0, d1)" :> depthTest(mode)) @@ m.defines,
           TRUE)

setDepthMode(m, mode) ==
  Material(mode,
           ("depthTest(d0, d1)" :> depthTest(mode)) @@ m.defines,
           TRUE)

getDepthMode(m) == m.depthMode

setMaxDepthStrategy(m, value) ==
  Material(m.depthMode,
           [m.defines EXCEPT
              !.DEPTH_TEST_STRATEGY = JSString(toFixed(value.val, StrategyDigits))],
           TRUE)

getMaxDepthStrategy(m) == JSNumber(Number(m.defines.DEPTH_TEST_STRATEGY))

\* setEpsilon that raises the flag only when the numeral changes.
setEpsilon_lazy(m, value) ==
  LET text == JSString(toFixed(value.val, EpsilonDigits))
  IN  Material(m.depthMode,
               [m.defines EXCEPT !.DEPTH_EPSILON = text],
               m.needsUpdate \/ ~StrictEquals(m.defines.DEPTH_EPSILON, text))

setEpsilon(m, value) ==
  Material(m.depthMode,
           [m.defines EXCEPT
              !.DEPTH_EPSILON = JSString(toFixed(value.val, EpsilonDigits))],
           TRUE)

getEpsilon(m) == JSNumber(Number(m.defines.DEPTH_EPSILON))

\* set keepFar(value) with false mapped to the DEFAULT strategy.
setKeepFar_default(m, value) ==
  setMaxDepthStrategy(m, IF value THEN DepthTestStrategy.KEEP_MAX_DEPTH
                                  ELSE DepthTestStrategy.DEFAULT)

\* set keepFar(value)
setKeepFar(m, value) ==
  setMaxDepthStrategy(m, IF value THEN DepthTestStrategy.KEEP_MAX_DEPTH
                                  ELSE DepthTestStrategy.DISCARD_MAX_DEPTH)

\* get keepFar()
keepFar(m) == StrictEquals(getMaxDepthStrategy(m), Get(DepthTestStrategy, "KEEP"))

\* new DepthMaskMaterial() with DEPTH_EPSILON: "0.0001".
constructor_epsilon ==
  setDepthMode(
    Material(LessDepth,
             [DEPTH_EPSILON |-> JSString(<<"0", ".", "0", "0", "0", "1">>),
              DEPTH_PACKING_0 |-> JSString(<<"0">>),
              DEPTH_PACKING_1 |-> JSString(<<"0">>),
              DEPTH_TEST_STRATEGY |-> DepthTestStrategy.KEEP_MAX_DEPTH],
             FALSE),
    LessDepth)

\* new DepthMaskMaterial()
constructor ==
  setDepthMode(
    Material(LessDepth,
             [DEPTH_EPSILON |-> JSString(<<"0", ".", "0", "0", "0", "0", "1">>),
              DEPTH_PACKING_0 |-> JSString(<<"0">>),
              DEPTH_PACKING_1 |-> JSString(<<"0">>),
              DEPTH_TEST_STRATEGY |-> DepthTestStrategy.KEEP_MAX_DEPTH],
             FALSE),
    LessDepth)

\* The value of the expression text for the samples d0 and d1, with the
\* macro DEPTH_EPSILON expanded to the numeral the defines hold.
Eval(text, d0, d1, defs) ==
  LET DEPTH_EPSILON == Number(defs.DEPTH_EPSILON)
  IN  CASE text = "false" -> FALSE
        [] text = "true" -> TRUE
        [] text = "abs(d1 - d0) <= DEPTH_EPSILON" -> Leq(AbsDiff(d1, d0), DEPTH_EPSILON)
        [] text = "abs(d1 - d0) > DEPTH_EPSILON" -> Lt(DEPTH_EPSILON, AbsDiff(d1, d0))
        [] text = "d0 > d1" -> Lt(d1, d0)
        [] text = "d0 >= d1" -> Leq(d1, d0)
        [] text = "d0 <= d1" -> Leq(d0, d1)
        [] text = "d0 < d1" -> Lt(d0, d1)

\* The defines as the renderer writes them into the shader prefix.
Emitted(defs) == [k \in DOMAIN defs |-> IF k = "depthTest(d0, d1)" THEN defs[k] ELSE String(defs[k])]

\* The configuration the getters report.
Config(m) ==
  [mode |-> getDepthMode(m),
   epsilon |-> getEpsilon(m).val,
   strategy |-> getMaxDepthStrategy(m).val]

----------------------------------------------------------------------------
(* Inputs. *)

ModeInputs == NeverDepth..(NotEqualDepth + MaxUnknownMode)

StrategyInputs ==
  {DepthTestStrategy.DEFAULT, DepthTestStrategy.KEEP_MAX_DEPTH,
   DepthTestStrategy.DISCARD_MAX_DEPTH}

EpsilonInputs ==
  {Zero, Dec(1, 5), Dec(1, 2), Dec(1, 16), Dec(4, 17), Dec(6, 17),
   Dec(125, 18), Neg(Dec(1, 3))}
  \cup {Dec(1, 5 + i) : i \in 1..MaxExtraEpsilon}

DepthSamples == {Dec(i, 5) : i \in 0..MaxSample} \cup {Dec(1, 0)}

----------------------------------------------------------------------------
(* Operations. *)

\* The defines of two materials hold the same values under the same names.
SameDefines(a, b) ==
  /\ DOMAIN a = DOMAIN b
  /\ \A k \in DOMAIN a :
       IF k = "depthTest(d0, d1)" THEN a[k] = b[k] ELSE StrictEquals(a[k], b[k])

\* The material becomes m by the call op(arg).  The call is recorded with
\* whether the flag was clear before it (clean) and whether it left the
\* mode and the defines as they were (same).
Apply(m, op, arg) ==
  /\ depthMode' = m.depthMode
  /\ defines' = m.defines
  /\ needsUpdate' = m.needsUpdate
  /\ call' = [op |-> op, arg |-> arg, clean |-> ~needsUpdate,
              same |-> m.depthMode = depthMode /\ SameDefines(m.defines, defines)]

Init ==
  /\ depthMode = constructor.depthMode
  /\ defines = constructor.defines
  /\ needsUpdate = constructor.needsUpdate
  /\ call = [op |-> "constructor", arg |-> <<>>, clean |-> FALSE, same |-> FALSE]

Construct ==
  /\ depthMode' = constructor.depthMode
  /\ defines' = constructor.defines
  /\ needsUpdate' = constructor.needsUpdate
  /\ call' = [op |-> "constructor", arg |-> <<>>, clean |-> FALSE, same |-> FALSE]

SetDepthMode ==
  \E mode \in ModeInputs : Apply(setDepthMode(this, mode), "setDepthMode", mode)

SetEpsilon ==
  \E value \in EpsilonInputs :
    Apply(setEpsilon(this, JSNumber(value)), "setEpsilon", value)

SetMaxDepthStrategy ==
  \E value \in StrategyInputs :
    Apply(setMaxDepthStrategy(this, value), "setMaxDepthStrategy", value.val)

SetKeepFar ==
  \E value \in BOOLEAN : Apply(setKeepFar(this, value), "keepFar", value)

\* The renderer builds the program from the defines and clears the flag.
Compile ==
  /\ needsUpdate
  /\ Apply(Material(depthMode, defines, FALSE), "compile", <<>>)

Next ==
  \/ Construct
  \/ SetDepthMode
  \/ SetEpsilon
  \/ SetMaxDepthStrategy
  \/ SetKeepFar
  \/ Compile

Spec == Init /\ [][Next]_vars

----------------------------------------------------------------------------
(* The truth table of the depth modes. *)

\* The keep decision of a mode for the samples d0 and d1.
Keep(mode, d0, d1, epsilon) ==
  CASE mode = NeverDepth -> FALSE
    [] mode = AlwaysDepth -> TRUE
    [] mode = EqualDepth -> Leq(AbsDiff(d1, d0), epsilon)
    [] mode = NotEqualDepth -> ~Leq(AbsDiff(d1, d0), epsilon)
    [] mode = LessDepth -> Lt(d1, d0)
    [] mode = LessEqualDepth -> ~Lt(d0, d1)
    [] mode = GreaterDepth -> Lt(d0, d1)
    [] mode = GreaterEqualDepth -> ~Lt(d1, d0)

\* The expression of a mode; a value outside the enumeration behaves as
\* Greater.
TablePredicate(mode) ==
  LET table == (NeverDepth :> "false") @@ (AlwaysDepth :> "true")
               @@ (EqualDepth :> "abs(d1 - d0) <= DEPTH_EPSILON")
               @@ (NotEqualDepth :> "abs(d1 - d0) > DEPTH_EPSILON")
               @@ (LessDepth :> "d0 > d1") @@ (LessEqualDepth :> "d0 >= d1")
               @@ (GreaterDepth :> "d0 < d1") @@ (GreaterEqualDepth :> "d0 <= d1")
  IN  IF mode \in DOMAIN table THEN table[mode] ELSE table[GreaterDepth]

\* The text of a define parsed as a numeral.
Denoted(v) == ParseNumeral(String(v))

SetterOps == {"setDepthMode", "setEpsilon", "setMaxDepthStrategy", "keepFar"}

\* The material with the configuration c set through the setters of a
\* freshly constructed material.
Canonical(c) ==
  setMaxDepthStrategy(
    setEpsilon(setDepthMode(constructor, c.mode), JSNumber(c.epsilon)),
    JSNumber(c.strategy))

----------------------------------------------------------------------------
(* Claims. *)

\* C1: for each of the eight depth modes and every pair of depth samples,
\* d0 = d1 included, the expression stored under "depthTest(d0, d1)"
\* evaluates to the keep decision the truth table gives for the mode, with
\* the epsilon the material reports.
C1_TruthTable ==
  depthMode \in DepthModes =>
    \A d0 \in DepthSamples, d1 \in DepthSamples :
      Eval(defines["depthTest(d0, d1)"], d0, d1, defines)
        = Keep(depthMode, d0, d1, getEpsilon(this).val)

\* C1 witness: setDepthMode(EqualDepth) has acted with a positive epsilon,
\* and the stored expression keeps an equal pair and a pair at distance
\* epsilon and discards a pair further apart.
C1_Witness ==
  /\ call.op = "setDepthMode"
  /\ call.arg = EqualDepth
  /\ Lt(Zero, getEpsilon(this).val)
  /\ \E d \in DepthSamples : Eval(defines["depthTest(d0, d1)"], d, d, defines)
  /\ \E d0 \in DepthSamples, d1 \in DepthSamples :
       /\ AbsDiff(d1, d0) = getEpsilon(this).val
       /\ Eval(defines["depthTest(d0, d1)"], d0, d1, defines)
  /\ \E d0 \in DepthSamples, d1 \in DepthSamples :
       ~Eval(defines["depthTest(d0, d1)"], d0, d1, defines)

\* C2: in every reachable state the emitted defines agree with what the
\* getters report: the expression is the one of getDepthMode(), the text of
\* DEPTH_EPSILON denotes getEpsilon() and the text of DEPTH_TEST_STRATEGY
\* denotes getMaxDepthStrategy(); right after a setter the getter and the
\* define both show the value set.
C2_DefinesConsistent ==
  /\ defines["depthTest(d0, d1)"] = TablePredicate(getDepthMode(this))
  /\ Denoted(defines.DEPTH_EPSILON) = getEpsilon(this).val
  /\ Denoted(defines.DEPTH_TEST_STRATEGY) = getMaxDepthStrategy(this).val
  /\ call.op = "setDepthMode" =>
       /\ getDepthMode(this) = call.arg
       /\ defines["depthTest(d0, d1)"] = TablePredicate(call.arg)
  /\ call.op = "setMaxDepthStrategy" =>
       /\ getMaxDepthStrategy(this).val = call.arg
       /\ Denoted(defines.DEPTH_TEST_STRATEGY) = call.arg

\* C2 witness: setDepthMode changed the mode of a material whose flag had
\* been cleared, and the define holds the expression of the new mode.
C2_Witness ==
  /\ call.op = "setDepthMode"
  /\ call.arg = GreaterEqualDepth
  /\ call.clean
  /\ ~call.same
  /\ defines["depthTest(d0, d1)"] = "d0 <= d1"

\* C3: after every call of setDepthMode, setEpsilon, setMaxDepthStrategy or
\* assignment to keepFar the flag needsUpdate is true, also when the call
\* set the value already held.
C3_SetterMarksDirty == call.op \in SetterOps => needsUpdate

\* C3 witness: setEpsilon was called with the value already held on a
\* material whose flag was clear, and the flag is set.
C3_Witness ==
  /\ call.op = "setEpsilon"
  /\ call.clean
  /\ call.same
  /\ needsUpdate

\* C4: after keepFar = true getMaxDepthStrategy() is KEEP_MAX_DEPTH, after
\* keepFar = false it is DISCARD_MAX_DEPTH, and after setMaxDepthStrategy(s)
\* it is s.
C4_StrategyRoundTrip ==
  /\ call.op = "keepFar" =>
       StrictEquals(getMaxDepthStrategy(this),
                    IF call.arg THEN DepthTestStrategy.KEEP_MAX_DEPTH
                                ELSE DepthTestStrategy.DISCARD_MAX_DEPTH)
  /\ call.op = "setMaxDepthStrategy" =>
       StrictEquals(getMaxDepthStrategy(this), JSNumber(call.arg))

\* C4 witness: keepFar = false changed the strategy and
\* getMaxDepthStrategy() is DISCARD_MAX_DEPTH.
C4_Witness ==
  /\ call.op = "keepFar"
  /\ call.arg = FALSE
  /\ ~call.same
  /\ StrictEquals(getMaxDepthStrategy(this), DepthTestStrategy.DISCARD_MAX_DEPTH)

\* C5: the keepFar getter is true exactly when getMaxDepthStrategy() is
\* KEEP_MAX_DEPTH.
C5_KeepFarGetter ==
  keepFar(this)
    <=> StrictEquals(getMaxDepthStrategy(this), DepthTestStrategy.KEEP_MAX_DEPTH)

\* C6: after setEpsilon(v) with v >= 0, getEpsilon() is v.
C6_EpsilonRoundTrip ==
  (call.op = "setEpsilon" /\ Leq(Zero, call.arg)) =>
    getEpsilon(this).val = call.arg

\* C7: getEpsilon() is never negative; setEpsilon with a negative value
\* leaves the defines and the flag as they were.
C7_EpsilonNonNegative ==
  /\ Leq(Zero, getEpsilon(this).val)
  /\ (call.op = "setEpsilon" /\ Lt(call.arg, Zero)) =>
       (call.same /\ needsUpdate = ~call.clean)

\* C8: the emitted defines are determined by the configuration: whenever
\* setting the configuration of the current state through the setters of a
\* fresh material gives a state with that same configuration, the two
\* states emit the same defines.
C8_Deterministic ==
  LET canonical == Canonical(Config(this))
  IN  Config(canonical) = Config(this) =>
        Emitted(canonical.defines) = Emitted(defines)

\* C9: a freshly constructed material has the mode Less with the expression
\* "d0 > d1", the epsilon 1e-5 and the strategy KEEP_MAX_DEPTH.
C9_Defaults ==
  call.op = "constructor" =>
    /\ getDepthMode(this) = LessDepth
    /\ defines["depthTest(d0, d1)"] = "d0 > d1"
    /\ getEpsilon(this).val = Dec(1, 5)
    /\ StrictEquals(getMaxDepthStrategy(this), DepthTestStrategy.KEEP_MAX_DEPTH)

\* C9 witness: a material was constructed after another one had been
\* configured and compiled.
C9_Witness ==
  /\ call.op = "constructor"
  /\ needsUpdate
  /\ Config(this) = [mode |-> LessDepth, epsilon |-> Dec(1, 5), strategy |-> Dec(1, 0)]

\* C10: getDepthMode() is always one of the eight modes, and the stored
\* expression is the one the truth table gives for it.
C10_ModeInEnumeration ==
  /\ getDepthMode(this) \in DepthModes
  /\ defines["depthTest(d0, d1)"] = TablePredicate(getDepthMode(this))

====
